---- MODULE Spec2Model ----
(***************************************************************************)
(* VehicleMPCController (roar_autonomous_system/control/mpc_controller.py) *)
(* as a state machine: construction of the bounds, the warm-start buffer   *)
(* and the compiled model, the vehicle telemetry the agent writes, and the *)
(* per-tick run_step (local fit, warm start, parameter binding, solve,     *)
(* command extraction).                                                    *)
(*                                                                         *)
(* Numbers are exact rationals [k |-> "num", n, d] (d > 0, lowest terms);  *)
(* Python's None is the value None; -arctan(q) of a non-zero rational q is *)
(* kept symbolically as [k |-> "negarctan", n, d].  Coordinates and speeds  *)
(* are floats with integer values.  run_step is driven with the rotations  *)
(* whose heading arctan2(pitch, roll) is exactly 0.0, the only ones whose  *)
(* cos and sin are exact in floating point; the coordinate transform, a    *)
(* static method, is also driven directly with exact cos and sin arguments *)
(* (SpecTransform).                                                        *)
(***************************************************************************)
EXTENDS Integers, Sequences, FiniteSets, TLC

(* ------------------------------------------------------------------ *)
(* Bounds of the model                                                 *)
(* ------------------------------------------------------------------ *)

\* largest horizon length (steps_ahead) a controller is constructed with
MaxN == 2

(* ------------------------------------------------------------------ *)
(* Values                                                              *)
(* ------------------------------------------------------------------ *)

None == [k |-> "None", n |-> 0, d |-> 1]

Abs(i) == IF i < 0 THEN -i ELSE i

RECURSIVE Gcd(_, _)
Gcd(a, b) == IF b = 0 THEN a ELSE Gcd(b, a % b)

\* the rational n/d (d # 0) in lowest terms with a positive denominator
Rat(n, d) ==
    LET g == Gcd(Abs(n), Abs(d))
        s == IF d < 0 THEN -1 ELSE 1
    IN  [k |-> "num", n |-> (s * n) \div g, d |-> Abs(d) \div g]

Num(i) == Rat(i, 1)

IsNum(a) == a.k = "num"

Add(a, b) == Rat(a.n * b.d + b.n * a.d, a.d * b.d)
Mul(a, b) == Rat(a.n * b.n, a.d * b.d)
Leq(a, b) == a.n * b.d <= b.n * a.d

RECURSIVE IntPow(_, _)
IntPow(b, e) == IF e = 0 THEN 1 ELSE b * IntPow(b, e - 1)

\* Python list repetition  count * [item] : a non-positive count gives []
Repeat(count, item) == [i \in 1..count |-> item]

\* Python indexing seq[i], negative i counting from the end
PyIndex(seq, i) == IF i < 0 THEN seq[Len(seq) + i + 1] ELSE seq[i + 1]

\* Python  a or b  on a number or None
PyOr(a, b) == IF a.k = "None" \/ (a.k = "num" /\ a.n = 0) THEN b ELSE a

(* ------------------------------------------------------------------ *)
(* Construction                                                        *)
(* ------------------------------------------------------------------ *)

state_vars == <<"x", "y", "v", "psi", "cte", "epsi">>

poly_degree == 3

tolerance == 1

\* sym.symbols('<symbol>0:<N>'): the tuple of N symbols, () when N < 1
create_array_of_symbols(str_symbol, N) ==
    [t \in 1..N |-> <<str_symbol, t - 1>>]

\* variant: the steering bounds placed before the throttle bounds
Bounds_steerFirst(steps_ahead, max_throttle, max_steering) ==
    Repeat(6 * steps_ahead, <<None, None>>)
    \o Repeat(steps_ahead, <<Num(-max_steering), Num(max_steering)>>)
    \o Repeat(steps_ahead, <<Num(0), Num(max_throttle)>>)

\* the box bounds of the decision vector
Bounds(steps_ahead, max_throttle, max_steering) ==
    Repeat(6 * steps_ahead, <<None, None>>)
    \o Repeat(steps_ahead, <<Num(0), Num(max_throttle)>>)
    \o Repeat(steps_ahead, <<Num(-max_steering), Num(max_steering)>>)

\* np.zeros(n); a negative n raises ValueError
npZerosRaises(n) == n < 0
npZeros(n) == Repeat(n, Num(0))

\* the symbol tuple vars_ of the decision vector
Vars(N) ==
    create_array_of_symbols("x", N) \o create_array_of_symbols("y", N)
    \o create_array_of_symbols("psi", N) \o create_array_of_symbols("v", N)
    \o create_array_of_symbols("cte", N) \o create_array_of_symbols("epsi", N)
    \o create_array_of_symbols("a", N) \o create_array_of_symbols("delta", N)

\* the parameter symbols init + poly every evaluator takes after the vector
InitSymbols ==
    <<"x_init", "y_init", "psi_init", "v_init", "cte_init", "epsi_init">>
ParamSymbols ==
    InitSymbols \o [i \in 1..(poly_degree + 1) |-> <<"poly", i - 1>>]

\* sym.lambdify((vars_, *args), symb_fun): an evaluator of symb_fun
generate_fun(symb_fun, vars_, params) ==
    [kind |-> "fun", expr |-> symb_fun, nvars |-> Len(vars_),
     nparams |-> Len(params)]

\* the evaluator of the gradient of symb_fun with respect to vars_
generate_grad(symb_fun, vars_, params) ==
    [kind |-> "grad", expr |-> symb_fun, nvars |-> Len(vars_),
     nparams |-> Len(params)]

\* variant: the pins of step 0 never index the symbol tuples
EqConstrRaises_never(N) == FALSE

\* eq_constr['x'][0] = x[0] - x_init indexes the empty tuple when N < 1
EqConstrRaises(N) == Len(create_array_of_symbols("x", N)) < 1

\* variant: the inner loop runs over range(1, steps_ahead)
ConstrFuncs_fromStep1(N) ==
    [i \in 1..(Len(state_vars) * (N - 1)) |->
        LET symbol == state_vars[((i - 1) \div (N - 1)) + 1]
            t == ((i - 1) % (N - 1)) + 1
            e == <<"eq_constr", symbol, t>>
        IN  [type |-> "eq",
             fun  |-> generate_fun(e, Vars(N), ParamSymbols),
             jac  |-> generate_grad(e, Vars(N), ParamSymbols),
             args |-> <<>>]]

\* the list constr_funcs: for each symbol of state_vars, for each horizon
\* step t, the evaluator of eq_constr[symbol][t] and its gradient; the
\* 'args': None of a constraint not yet bound is the empty tuple
ConstrFuncs(N) ==
    [i \in 1..(Len(state_vars) * N) |->
        LET symbol == state_vars[((i - 1) \div N) + 1]
            t == (i - 1) % N
            e == <<"eq_constr", symbol, t>>
        IN  [type |-> "eq",
             fun  |-> generate_fun(e, Vars(N), ParamSymbols),
             jac  |-> generate_grad(e, Vars(N), ParamSymbols),
             args |-> <<>>]]

\* get_func_constraints_and_bounds: (cost_func, cost_grad_func, constr_funcs)
get_func_constraints_and_bounds(N) ==
    [cost_func      |-> generate_fun(<<"cost", "", 0>>, Vars(N), ParamSymbols),
     cost_grad_func |-> generate_grad(<<"cost", "", 0>>, Vars(N), ParamSymbols),
     constr_funcs   |-> ConstrFuncs(N)]

\* the exception __init__ raises for this horizon length, "none" if it returns
CtorError(steps_ahead) ==
    IF npZerosRaises(steps_ahead * (Len(state_vars) + 2)) THEN "ValueError"
    ELSE IF EqConstrRaises(steps_ahead) THEN "IndexError"
    ELSE "none"

(* ------------------------------------------------------------------ *)
(* Per-tick pure functions                                             *)
(* ------------------------------------------------------------------ *)

\* np.cos and np.sin of np.arctan2(pitch, roll) where that is exactly 0.0:
\* pitch = 0 and roll >= 0.  No other rotation is modelled: its cos or sin
\* is off an exact value by a rounding error (cos(pi/2) = 6.1e-17).
CosOf(pitch, roll) == CASE pitch = 0 /\ roll >= 0 -> 1
SinOf(pitch, roll) == CASE pitch = 0 /\ roll >= 0 -> 0

\* variant: a plain rotation by -psi, the lateral axis not negated
transform_rotationOnly(pts, x, y, cos_psi, sin_psi) ==
    LET diff == <<pts[1] - x, pts[2] - y>>
    IN  <<cos_psi * diff[1] + sin_psi * diff[2],
          (-sin_psi) * diff[1] + cos_psi * diff[2]>>

\* the waypoint pts = [wx, wy] in the car's coordinate system
modified_transform_into_cars_coordinate_system(pts, x, y, cos_psi, sin_psi) ==
    LET diff == <<pts[1] - x, pts[2] - y>>
    IN  <<cos_psi * diff[1] + sin_psi * diff[2],
          sin_psi * diff[1] - cos_psi * diff[2]>>

\* np.polyfit([px], [py], deg) divides the Vandermonde row by its column
\* norms; px = 0 gives 0/0 and the least-squares solve raises LinAlgError
polyfitRaises(px, py, deg) == px = 0

\* np.polyfit([px], [py], deg) through one point: the minimum-norm solution
\* of the column-scaled system, coefficient of x^p = py / ((deg+1) * px^p),
\* highest power first
polyfit(px, py, deg) ==
    [j \in 1..(deg + 1) |-> Rat(py, (deg + 1) * IntPow(px, deg + 1 - j))]

\* np.polyval(p, x) by Horner's rule
RECURSIVE polyvalFrom(_, _, _, _)
polyvalFrom(p, x, j, acc) ==
    IF j > Len(p) THEN acc ELSE polyvalFrom(p, x, j + 1, Add(Mul(acc, x), p[j]))
polyval(p, x) == polyvalFrom(p, x, 1, Num(0))

\* np.linspace(0, 1, N)
linspace01(N) == [i \in 1..N |-> IF N = 1 THEN Num(0) ELSE Rat(i - 1, N - 1)]

\* -np.arctan(q)
NegArctan(q) == IF q.n = 0 THEN Num(0) ELSE [k |-> "negarctan", n |-> q.n, d |-> q.d]

\* variant: a slice is written only when its value is truthy, so a zero
\* v, cte or epsi leaves what the buffer held
get_state0_skipFalsy(buf, N, v, cte, epsi, a0, delta0, poly) ==
    LET a     == PyOr(a0, Num(0))
        delta == PyOr(delta0, Num(0))
        x     == linspace01(N)
        psi   == Num(0)
    IN  [i \in 1..Len(buf) |->
            IF i <= N THEN x[i]
            ELSE IF i <= 2 * N THEN polyval(poly, x[i - N])
            ELSE IF i <= 3 * N THEN psi
            ELSE IF i <= 4 * N THEN PyOr(v, buf[i])
            ELSE IF i <= 5 * N THEN PyOr(cte, buf[i])
            ELSE IF i <= 6 * N THEN PyOr(epsi, buf[i])
            ELSE IF i <= 7 * N THEN a
            ELSE IF i <= 8 * N THEN delta
            ELSE buf[i]]

\* get_state0(v, cte, epsi, a, delta, poly) on the buffer self.state0:
\* the slice assignments state0[k*N:(k+1)*N] = ..., entry by entry; an
\* entry no slice covers keeps what the buffer held
get_state0(buf, N, v, cte, epsi, a0, delta0, poly) ==
    LET a     == PyOr(a0, Num(0))
        delta == PyOr(delta0, Num(0))
        x     == linspace01(N)
        psi   == Num(0)
    IN  [i \in 1..Len(buf) |->
            IF i <= N THEN x[i]
            ELSE IF i <= 2 * N THEN polyval(poly, x[i - N])
            ELSE IF i <= 3 * N THEN psi
            ELSE IF i <= 4 * N THEN v
            ELSE IF i <= 5 * N THEN cte
            ELSE IF i <= 6 * N THEN epsi
            ELSE IF i <= 7 * N THEN a
            ELSE IF i <= 8 * N THEN delta
            ELSE buf[i]]

\* variant: only a constraint whose args is still None is bound
BindArgs_onlyUnbound(constr_funcs, init) ==
    [i \in 1..Len(constr_funcs) |->
        IF constr_funcs[i].args = <<>>
        THEN [constr_funcs[i] EXCEPT !.args = init]
        ELSE constr_funcs[i]]

\* the loop of minimize_cost: constr_func['args'] = init
BindArgs(constr_funcs, init) ==
    [i \in 1..Len(constr_funcs) |-> [constr_funcs[i] EXCEPT !.args = init]]

\* what minimize_cost hands to scipy.optimize.minimize
Problem(cost_func, cost_grad_func, constr_funcs, bounds, x0, init) ==
    [fun |-> cost_func, x0 |-> x0, args |-> init, jac |-> cost_grad_func,
     bounds |-> bounds, constraints |-> constr_funcs, method |-> "SLSQP",
     tol |-> tolerance]

(* ------------------------------------------------------------------ *)
(* Collaborators: Control, scipy.optimize.minimize                     *)
(* ------------------------------------------------------------------ *)

\* Control(): a command whose steering and throttle are not set
Control == [steering |-> None, throttle |-> None]

\* messages SLSQP ends with
MsgSuccess == "Optimization terminated successfully"
MsgIterLimit == "Iteration limit reached"
Messages == {MsgSuccess, MsgIterLimit}

\* 'success' in result.message
SuccessIn(message) == message \in {MsgSuccess}

\* the solver's iterates before the box bounds are applied
SolverSeeds == {1, 2}
Raw(seed, i) == (((seed + 1) * (i + 2)) % 7) - 3

\* a value brought inside the bound pair (lo, hi); None is no bound
Clip(b, val) ==
    IF b[1].k # "None" /\ ~Leq(b[1], val) THEN b[1]
    ELSE IF b[2].k # "None" /\ ~Leq(val, b[2]) THEN b[2]
    ELSE val

\* the results minimize can return for a problem with these box bounds:
\* a message and a decision vector x inside the bounds
SolverOutcomes(bnds) ==
    {[message |-> m, x |-> [i \in 1..Len(bnds) |-> Clip(bnds[i], Num(Raw(seed, i)))]] :
        m \in Messages, seed \in SolverSeeds}

(* ------------------------------------------------------------------ *)
(* run_step                                                            *)
(* ------------------------------------------------------------------ *)

\* variant: the last entry of each actuator series is taken
ExtractControl_last(result, N) ==
    IF SuccessIn(result.message)
    THEN [steering |-> PyIndex(result.x, -1),
          throttle |-> PyIndex(result.x, -N - 1)]
    ELSE Control

\* the command run_step builds from the solver's result
ExtractControl(result, N) ==
    IF SuccessIn(result.message)
    THEN [steering |-> PyIndex(result.x, -N),
          throttle |-> PyIndex(result.x, -2 * N)]
    ELSE Control

\* init = (0, 0, 0, v, cte, epsi, *poly)
InitTuple(v, cte, epsi, poly) ==
    <<Num(0), Num(0), Num(0), v, cte, epsi>> \o poly

(* ------------------------------------------------------------------ *)
(* State                                                               *)
(* ------------------------------------------------------------------ *)

VARIABLES
    pc,             \* "new": __init__ not yet run; "ready": constructed;
                    \* "failed": __init__ raised
    ctor,           \* the constructor's arguments and the exception it raised
    bounds,         \* self.bounds
    state0,         \* self.state0, the warm-start buffer
    cost_func,      \* self.cost_func
    cost_grad_func, \* self.cost_grad_func
    constr_funcs,   \* self.constr_funcs
    steer,          \* self.steer
    throttle,       \* self.throttle
    tick,           \* the last run_step: its inputs, what it handed to the
                    \* solver, the solver's result, what it returned, and
                    \* (prev) the most recent successful command before it
    lastGood,       \* history: the command of the most recent successful tick
    ref,            \* history: the first solver invocation of run_step on
                    \* this controller; other: a later tick had other
                    \* parameters
    tf              \* a direct use of the static coordinate transform and
                    \* of the fit that follows it: arguments and results

vars == <<pc, ctor, bounds, state0, cost_func, cost_grad_func, constr_funcs,
          steer, throttle, tick, lastGood, ref, tf>>

controller == <<bounds, state0, cost_func, cost_grad_func, constr_funcs,
                steer, throttle>>

(* ------------------------------------------------------------------ *)
(* Inputs                                                              *)
(* ------------------------------------------------------------------ *)

HorizonChoices == -1..MaxN
ActuatorLimits == {<<1, 2>>, <<2, 1>>}    \* (max_throttle, max_steering)

\* self.vehicle at a tick: location (x, y), rotation (pitch, roll), speed
VehicleStates ==
    {[x |-> 0, y |-> 0,  pitch |-> 0, roll |-> 1, speed |-> 5],
     [x |-> 1, y |-> -1, pitch |-> 0, roll |-> 2, speed |-> 0],
     [x |-> 0, y |-> 2,  pitch |-> 0, roll |-> 0, speed |-> 5]}

\* next_waypoint.location (x, y)
Waypoints == {<<10, 0>>, <<10, 2>>, <<0, 0>>}

NoEval == [kind |-> "none", expr |-> <<"", "", 0>>, nvars |-> 0, nparams |-> 0]
NoProblem == Problem(NoEval, NoEval, <<>>, <<>>, <<>>, <<>>)
NoResult == [message |-> "", x |-> <<>>]
NoCmd == [set |-> FALSE, control |-> Control]
NoVehicle == [x |-> 0, y |-> 0, pitch |-> 0, roll |-> 0, speed |-> 0]
NoTick == [outcome |-> "none", vehicle |-> NoVehicle, waypoint |-> <<0, 0>>,
           pts_car |-> <<0, 0>>, poly |-> <<>>, init |-> <<>>,
           seed |-> <<None, None>>, call |-> NoProblem, result |-> NoResult,
           control |-> Control, prev |-> NoCmd]
NoRef == [set |-> FALSE, other |-> FALSE, init |-> <<>>,
          seed |-> <<None, None>>, call |-> NoProblem]
NoTf == [stage |-> "none", pts |-> <<0, 0>>, x |-> 0, y |-> 0,
         cos_psi |-> 0, sin_psi |-> 0, pts_car |-> <<0, 0>>, poly |-> <<>>]

\* arguments of get_state0 called on its own: v, cte, epsi, a, delta, poly
DirectState0Args ==
    {[v |-> Num(7), cte |-> Num(8), epsi |-> Num(9), a |-> Rat(1, 4),
      delta |-> Rat(1, 2), poly |-> <<Num(0), Num(0), Num(0), Num(3)>>]}

\* the init argument of minimize_cost called on its own
DirectInits ==
    {InitTuple(Num(7), Num(8), Num(9), <<Num(0), Num(0), Num(0), Num(3)>>)}

\* arguments of the static transform called on its own: the waypoint pts,
\* the position (x, y), and exact (cos_psi, sin_psi) pairs
TfPoints == {<<10, 0>>, <<10, 2>>, <<0, 0>>, <<-3, 5>>}
TfCoords == {-1, 0, 1}
TfRotations == {<<1, 0>>, <<0, 1>>, <<-1, 0>>, <<0, -1>>}

(* ------------------------------------------------------------------ *)
(* Actions                                                             *)
(* ------------------------------------------------------------------ *)

Init ==
    /\ pc = "new"
    /\ \E N \in HorizonChoices, lim \in ActuatorLimits :
          ctor = [steps_ahead |-> N, max_throttle |-> lim[1],
                  max_steering |-> lim[2], error |-> "none"]
    /\ bounds = <<>>
    /\ state0 = <<>>
    /\ cost_func = NoEval
    /\ cost_grad_func = NoEval
    /\ constr_funcs = <<>>
    /\ steer = None
    /\ throttle = None
    /\ tick = NoTick
    /\ lastGood = NoCmd
    /\ ref = NoRef
    /\ tf = NoTf

\* VehicleMPCController.__init__
Construct ==
    /\ pc = "new"
    /\ LET N == ctor.steps_ahead
           err == CtorError(N)
           model == get_func_constraints_and_bounds(N)
       IN  IF err # "none"
           THEN /\ pc' = "failed"
                /\ ctor' = [ctor EXCEPT !.error = err]
                /\ UNCHANGED controller
           ELSE /\ pc' = "ready"
                /\ bounds' = Bounds(N, ctor.max_throttle, ctor.max_steering)
                /\ state0' = npZeros(N * (Len(state_vars) + 2))
                /\ cost_func' = model.cost_func
                /\ cost_grad_func' = model.cost_grad_func
                /\ constr_funcs' = model.constr_funcs
                /\ steer' = None
                /\ throttle' = None
                /\ UNCHANGED ctor
    /\ UNCHANGED <<tick, lastGood, ref, tf>>

\* VehicleMPCController.run_step(next_waypoint), reading the telemetry the
\* agent has written into self.vehicle
RunStep ==
    /\ pc = "ready"
    /\ \E vehicle \in VehicleStates, wp \in Waypoints :
        LET N       == ctor.steps_ahead
            v       == Num(vehicle.speed)
            cos_psi == CosOf(vehicle.pitch, vehicle.roll)
            sin_psi == SinOf(vehicle.pitch, vehicle.roll)
            pts_car == modified_transform_into_cars_coordinate_system(
                           wp, vehicle.x, vehicle.y, cos_psi, sin_psi)
        IN  IF polyfitRaises(pts_car[1], pts_car[2], poly_degree)
            THEN /\ tick' = [NoTick EXCEPT !.outcome = "raised",
                                           !.vehicle = vehicle,
                                           !.waypoint = wp, !.pts_car = pts_car,
                                           !.prev = lastGood]
                 /\ UNCHANGED <<controller, lastGood, ref>>
            ELSE
              \E poly \in {polyfit(pts_car[1], pts_car[2], poly_degree)} :
              \E cte \in {PyIndex(poly, -1)} :
              \E epsi \in {NegArctan(PyIndex(poly, -2))} :
              \E init \in {InitTuple(v, cte, epsi, poly)} :
              \E x0 \in {get_state0(state0, N, v, cte, epsi, steer, throttle, poly)} :
              \E cfs \in {BindArgs(constr_funcs, init)} :
              \E call \in {Problem(cost_func, cost_grad_func, cfs, bounds, x0, init)} :
              \E result \in SolverOutcomes(call.bounds) :
              \E control \in {ExtractControl(result, N)} :
                  /\ state0' = x0
                  /\ constr_funcs' = cfs
                  /\ tick' = [outcome |-> "returned", vehicle |-> vehicle,
                              waypoint |-> wp, pts_car |-> pts_car,
                              poly |-> poly, init |-> init,
                              seed |-> <<steer, throttle>>, call |-> call,
                              result |-> result, control |-> control,
                              prev |-> lastGood]
                  /\ lastGood' = IF SuccessIn(result.message)
                                 THEN [set |-> TRUE, control |-> control]
                                 ELSE lastGood
                  /\ ref' = IF ref.set
                            THEN [ref EXCEPT !.other =
                                     @ \/ init # ref.init
                                       \/ <<steer, throttle>> # ref.seed]
                            ELSE [set |-> TRUE, other |-> FALSE, init |-> init,
                                  seed |-> <<steer, throttle>>, call |-> call]
                  /\ UNCHANGED <<bounds, cost_func, cost_grad_func,
                                 steer, throttle>>
    /\ UNCHANGED <<pc, ctor, tf>>

\* get_state0(v, cte, epsi, a, delta, poly) called on its own: it fills
\* the buffer self.state0 in place
CallGetState0 ==
    /\ pc = "ready"
    /\ \E d \in DirectState0Args :
          state0' = get_state0(state0, ctor.steps_ahead, d.v, d.cte, d.epsi,
                               d.a, d.delta, d.poly)
    /\ UNCHANGED <<pc, ctor, bounds, cost_func, cost_grad_func, constr_funcs,
                   steer, throttle, tick, lastGood, ref, tf>>

\* minimize_cost(self.bounds, self.state0, init) called on its own: it
\* binds init on every constraint and returns the solver's result
CallMinimizeCost ==
    /\ pc = "ready"
    /\ \E init \in DirectInits :
        \E cfs \in {BindArgs(constr_funcs, init)} :
        \E call \in {Problem(cost_func, cost_grad_func, cfs, bounds, state0, init)} :
        \E result \in SolverOutcomes(call.bounds) :
            constr_funcs' = cfs
    /\ UNCHANGED <<pc, ctor, bounds, state0, cost_func, cost_grad_func,
                   steer, throttle, tick, lastGood, ref, tf>>

Next == Construct \/ RunStep \/ CallGetState0 \/ CallMinimizeCost

Spec == Init /\ [][Next]_vars

(* ------------------------------------------------------------------ *)
(* The coordinate transform and the fit, on their own                  *)
(* ------------------------------------------------------------------ *)

InitTransform ==
    /\ pc = "static"
    /\ ctor = [steps_ahead |-> 1, max_throttle |-> 1, max_steering |-> 1,
               error |-> "none"]
    /\ bounds = <<>>
    /\ state0 = <<>>
    /\ cost_func = NoEval
    /\ cost_grad_func = NoEval
    /\ constr_funcs = <<>>
    /\ steer = None
    /\ throttle = None
    /\ tick = NoTick
    /\ lastGood = NoCmd
    /\ ref = NoRef
    /\ \E pts \in TfPoints, x \in TfCoords, y \in TfCoords, r \in TfRotations :
          tf = [NoTf EXCEPT !.stage = "args", !.pts = pts, !.x = x, !.y = y,
                            !.cos_psi = r[1], !.sin_psi = r[2]]

\* modified_transform_into_cars_coordinate_system(pts, x, y, cos_psi, sin_psi)
Transform ==
    /\ pc = "static"
    /\ tf.stage = "args"
    /\ tf' = [tf EXCEPT !.stage = "car",
                        !.pts_car = modified_transform_into_cars_coordinate_system(
                                        tf.pts, tf.x, tf.y, tf.cos_psi, tf.sin_psi)]
    /\ UNCHANGED <<pc, ctor, controller, tick, lastGood, ref>>

\* np.polyfit through the local point, as run_step applies it
Fit ==
    /\ pc = "static"
    /\ tf.stage = "car"
    /\ tf' = IF polyfitRaises(tf.pts_car[1], tf.pts_car[2], poly_degree)
             THEN [tf EXCEPT !.stage = "raised"]
             ELSE [tf EXCEPT !.stage = "fit",
                             !.poly = polyfit(tf.pts_car[1], tf.pts_car[2],
                                              poly_degree)]
    /\ UNCHANGED <<pc, ctor, controller, tick, lastGood, ref>>

NextTransform == Transform \/ Fit

SpecTransform == InitTransform /\ [][NextTransform]_vars

(* ------------------------------------------------------------------ *)
(* Properties                                                          *)
(* ------------------------------------------------------------------ *)

\* the last run_step reached the solver and returned
Solved == tick.outcome = "returned"
\* ... and the solver reported success
Succeeded == Solved /\ SuccessIn(tick.result.message)
\* ... and the solver reported non-success
Failed == Solved /\ ~SuccessIn(tick.result.message)

InRange(lo, val, hi) == IsNum(val) /\ Leq(lo, val) /\ Leq(val, hi)

IndexOf(sym, seq) == CHOOSE i \in 1..Len(seq) : seq[i] = sym

\* C1: on a tick whose solve reports non-success, run_step returns the
\* command of the most recent successful tick (steering and throttle both).
C1_FailureKeepsCommand ==
    (Failed /\ tick.prev.set) => tick.control = tick.prev.control

\* C2: once a tick has succeeded the controller is ACTIVE: self.steer and
\* self.throttle hold the steering and throttle of the most recent
\* successful command; before that they are None.
C2_StateMachine ==
    pc = "ready" =>
        IF lastGood.set
        THEN /\ steer = lastGood.control.steering
             /\ throttle = lastGood.control.throttle
        ELSE steer = None /\ throttle = None

\* C3: the command of a successful tick has throttle in [0, max_throttle]
\* and steering in [-max_steering, max_steering], the solver's vector being
\* inside the box bounds it was given.
C3_BoundsRespected ==
    Succeeded =>
        /\ InRange(Num(0), tick.control.throttle, Num(ctor.max_throttle))
        /\ InRange(Num(-ctor.max_steering), tick.control.steering,
                   Num(ctor.max_steering))

\* a successful tick of a horizon-2 controller whose solution has entries
\* outside the throttle range and outside the steering range
C3_Witness ==
    /\ Succeeded
    /\ ctor.steps_ahead = 2
    /\ \E i \in 1..Len(tick.result.x) :
          ~InRange(Num(0), tick.result.x[i], Num(ctor.max_throttle))
    /\ \E i \in 1..Len(tick.result.x) :
          ~InRange(Num(-ctor.max_steering), tick.result.x[i],
                   Num(ctor.max_steering))
    /\ tick.control.steering = Num(ctor.max_steering)

\* C4: a constructed controller, before and after any ticks, has 6N
\* constraint entries, one per state series per horizon step, and a
\* decision vector of length 8N: warm-start buffer, symbol tuple and bounds.
C4_Dimensions ==
    pc = "ready" =>
        LET N == ctor.steps_ahead
        IN  /\ N >= 1
            /\ Len(constr_funcs) = 6 * N
            /\ {constr_funcs[i].fun.expr : i \in 1..Len(constr_funcs)}
                 = {<<"eq_constr", symbol, t>> :
                      symbol \in {"x", "y", "psi", "v", "cte", "epsi"},
                      t \in 0..(N - 1)}
            /\ Len(state0) = 8 * N
            /\ Len(bounds) = 8 * N
            /\ cost_func.nvars = 8 * N
            /\ \A i \in 1..Len(constr_funcs) :
                  constr_funcs[i].fun.nvars = 8 * N
                  /\ constr_funcs[i].jac.nvars = 8 * N

\* a horizon-2 controller that has run a tick
C4_Witness == pc = "ready" /\ ctor.steps_ahead = 2 /\ Solved

\* C5: on solver success the returned steering is the solution entry of
\* delta[0] (position 7N of the layout x, y, psi, v, cte, epsi, a, delta)
\* and the returned throttle the entry of a[0] (position 6N).
C5_CommandExtraction ==
    Succeeded =>
        LET N == ctor.steps_ahead
            vars_ == Vars(N)
            iDelta == IndexOf(<<"delta", 0>>, vars_)
            iA == IndexOf(<<"a", 0>>, vars_)
        IN  /\ iDelta = 7 * N + 1
            /\ iA = 6 * N + 1
            /\ tick.control.steering = tick.result.x[iDelta]
            /\ tick.control.throttle = tick.result.x[iA]

\* a successful horizon-2 tick whose solution tells a[0], a[1], delta[0]
\* and delta[1] apart
C5_Witness ==
    /\ Succeeded
    /\ ctor.steps_ahead = 2
    /\ tick.result.x[13] # tick.result.x[14]
    /\ tick.result.x[15] # tick.result.x[16]
    /\ tick.result.x[13] # tick.result.x[15]

\* C6 as claimed: the local waypoint is the world offset rotated by -psi,
\* (cos*dx + sin*dy, -sin*dx + cos*dy), and the waypoint (10, 2) seen from
\* the origin with heading 0 gives a positive intercept cte.
C6_TransformAsClaimed ==
    tf.stage \in {"car", "fit", "raised"} =>
        LET dx == tf.pts[1] - tf.x
            dy == tf.pts[2] - tf.y
            c  == tf.cos_psi
            sn == tf.sin_psi
        IN  /\ tf.pts_car = <<c * dx + sn * dy, (-sn) * dx + c * dy>>
            /\ (tf.stage = "fit" /\ dx = 10 /\ dy = 2 /\ c = 1 /\ sn = 0)
                  => PyIndex(tf.poly, -1).n > 0

\* C6 amended: the local waypoint is the world offset rotated by -psi with
\* the lateral axis negated, (cos*dx + sin*dy, sin*dx - cos*dy), and the
\* waypoint (10, 2) seen from the origin with heading 0 has local lateral
\* coordinate -2 and a negative intercept cte = -1/2.
C6_Transform ==
    tf.stage \in {"car", "fit", "raised"} =>
        LET dx == tf.pts[1] - tf.x
            dy == tf.pts[2] - tf.y
            c  == tf.cos_psi
            sn == tf.sin_psi
        IN  /\ tf.pts_car = <<c * dx + sn * dy, sn * dx - c * dy>>
            /\ (tf.stage = "fit" /\ dx = 10 /\ dy = 2 /\ c = 1 /\ sn = 0)
                  => /\ tf.pts_car = <<10, -2>>
                     /\ PyIndex(tf.poly, -1) = Rat(-1, 2)

\* the lateral-offset scenario has been transformed and fitted
C6_Witness ==
    /\ tf.stage = "fit"
    /\ tf.pts = <<10, 2>> /\ tf.x = 0 /\ tf.y = 0
    /\ tf.cos_psi = 1 /\ tf.sin_psi = 0
    /\ PyIndex(tf.poly, -1) # Num(0)

\* C7: the acceleration entries of the warm start (6N..7N-1) all equal the
\* throttle, and the steering entries (7N..8N-1) the steering, of the
\* previous successful command; both are 0 when there is none.
C7_WarmStartSeeding ==
    Solved =>
        LET N == ctor.steps_ahead
            a == IF tick.prev.set THEN tick.prev.control.throttle ELSE Num(0)
            delta == IF tick.prev.set THEN tick.prev.control.steering ELSE Num(0)
        IN  /\ \A i \in (6 * N + 1)..(7 * N) : tick.call.x0[i] = a
            /\ \A i \in (7 * N + 1)..(8 * N) : tick.call.x0[i] = delta

\* C8: a solver invocation with the initial-state parameters, polynomial
\* and carried actuator values of an earlier one is handed the same problem
\* data (x0, bounds, args of the cost and of every constraint, evaluators),
\* whatever ticks ran in between.
C8_Determinism ==
    (Solved /\ ref.set /\ tick.init = ref.init /\ tick.seed = ref.seed)
        => tick.call = ref.call

\* the parameters of the first invocation come again after a tick with
\* other parameters
C8_Witness ==
    /\ Solved /\ ref.set /\ ref.other
    /\ tick.init = ref.init /\ tick.seed = ref.seed

\* C9: a horizon length steps_ahead < 1 makes __init__ raise: the
\* controller never becomes ready, holds no bounds, buffer or compiled
\* model, and runs no tick.
C9_ConstructionValidation ==
    ctor.steps_ahead < 1 =>
        /\ pc # "ready"
        /\ pc = "failed" => ctor.error # "none"
        /\ bounds = <<>> /\ state0 = <<>> /\ constr_funcs = <<>>
        /\ cost_func = NoEval /\ cost_grad_func = NoEval
        /\ tick.outcome = "none"

\* construction with steps_ahead = 0 has raised
C9_Witness == pc = "failed" /\ ctor.steps_ahead = 0 /\ ctor.error = "IndexError"

\* C10: at the solver invocation of a tick every one of the 6N constraints
\* carries the current tick's parameters (0, 0, 0, v, cte, epsi, *poly) as
\* args; type, fun and jac of each constraint, the cost and cost-gradient
\* evaluators and the bounds are, then and ever after construction, the
\* ones built at construction.
C10_BindingAndFrame ==
    pc = "ready" =>
        LET N == ctor.steps_ahead
            built == get_func_constraints_and_bounds(N)
        IN  /\ Len(constr_funcs) = Len(built.constr_funcs)
            /\ \A i \in 1..Len(constr_funcs) :
                  /\ constr_funcs[i].type = built.constr_funcs[i].type
                  /\ constr_funcs[i].fun = built.constr_funcs[i].fun
                  /\ constr_funcs[i].jac = built.constr_funcs[i].jac
            /\ cost_func = built.cost_func
            /\ cost_grad_func = built.cost_grad_func
            /\ bounds = Bounds(N, ctor.max_throttle, ctor.max_steering)
            /\ Solved =>
                LET params == <<Num(0), Num(0), Num(0), Num(tick.vehicle.speed),
                                tick.poly[4], NegArctan(tick.poly[3]),
                                tick.poly[1], tick.poly[2], tick.poly[3],
                                tick.poly[4]>>
                    cs == tick.call.constraints
                IN  /\ Len(cs) = 6 * N
                    /\ \A i \in 1..Len(cs) :
                          /\ cs[i].args = params
                          /\ Len(cs[i].args) = cs[i].fun.nparams
                          /\ cs[i].type = built.constr_funcs[i].type
                          /\ cs[i].fun = built.constr_funcs[i].fun
                          /\ cs[i].jac = built.constr_funcs[i].jac
                    /\ tick.call.args = params
                    /\ tick.call.fun = built.cost_func
                    /\ tick.call.jac = built.cost_grad_func
                    /\ tick.call.bounds = bounds

\* a tick whose parameters differ from those of the first tick
C10_Witness == Solved /\ ref.set /\ ref.init # tick.init

====
